---- MODULE Spec2Model ----
(***************************************************************************)
(* musikbox: the playback session of src/main.rs (struct Instance and      *)
(* Instance::run) as a state machine.                                      *)
(*                                                                         *)
(* Conventions.                                                            *)
(*  - A character is a one-character string, a path or a URI a sequence    *)
(*    of characters.                                                       *)
(*  - An Option<T> is a set with at most one element: {} is None and {x}   *)
(*    is Some(x).                                                          *)
(*  - Indices into files are 0-based as in the source; files[i] of the     *)
(*    source is files[i + 1] here.                                         *)
(*  - The volume is an integer number of hundredths (1.0 is 100).          *)
(*  - cmds is the sequence of calls the most recent step made on the       *)
(*    gstreamer Play object (self.play) and to thread::sleep, reads        *)
(*    included. Rendering (terminal.draw) is not modelled, so its reads    *)
(*    are not part of it.                                                  *)
(*  - A Rust panic (index out of bounds, remainder by zero, unwrap of      *)
(*    None, overflow in a build with overflow checks) ends the process:    *)
(*    pc = "panic".                                                        *)
(***************************************************************************)
EXTENDS Integers, Sequences, FiniteSets, TLC

\* ------------------------------------------------------------------ bounds

\* Largest number of directory entries listed by Instance::new.
MaxFiles == 6

\* Largest number of directory entries of the runs that edit the search
\* buffer.
MaxSearchFiles == 3

\* Largest number of directory entries of the runs that adjust the volume.
MaxVolumeFiles == 1

\* Largest number of directory entries of the runs that seek.
MaxControlFiles == 1
MaxToggleFiles == 2

\* Longest search buffer the model lets the user type.
MaxSearch == 2

\* The --volume override used when one is given, in hundredths.
OverrideVolume == 40

\* Longest duration the engine reports, in seconds.
MaxSeconds == 17

\* ------------------------------------------------------- program constants

\* Volume of a fresh gstreamer Play object (1.0).
DefaultVolume == 100

\* thread::sleep(Duration::from_millis(500)) of play_path.
SettleMillis == 500

\* The stride of the Left and Right keys of the music list.
PageStride == 5

\* usize::MAX. The program's usize is 64 bits wide; TLC's integers are 32
\* bits wide, so the model's usize is 31 bits wide. The only wrapping
\* operations of the program are 0 - 1 and usize::MAX + 1.
UsizeMax == 2147483647

\* ------------------------------------------------------------------ Option

None == {}

Some(x) == {x}

IsSome(o) == o # {}

Unwrap(o) == CHOOSE x \in o : TRUE

\* ------------------------------------------------------------- characters

\* The characters a KeyCode::Char key can carry in the model: the two global
\* ones ('q' and ' ') and the ones some region gives a meaning to.
Chars == {"q", " ", "r", "R", "s", "l", "i"}

\* char::to_lowercase on the model's characters.
LowerChar(c) == IF c = "R" THEN "r" ELSE c

\* str::to_lowercase.
to_lowercase(s) == [k \in 1..Len(s) |-> LowerChar(s[k])]

\* str::contains: pat occurs in s as a contiguous substring.
contains(s, pat) ==
    \E k \in 0..(Len(s) - Len(pat)) :
        \A j \in 1..Len(pat) : s[k + j] = pat[j]

\* ------------------------------------------------------------------ paths

\* Instance::dir with no --dir argument.
dir == <<".">>

\* The letters of the file names of the model's directory, in byte order
\* ('R' = 0x52 < 'r' = 0x72 < 's' = 0x73).
Letters == <<"R", "r", "s">>

\* The name of the i-th (0-based) entry of the directory in sorted order:
\* the two base-3 digits of i written with Letters.
EntryName(i) == <<Letters[((i \div 3) % 3) + 1], Letters[(i % 3) + 1]>>

\* The path read_dir yields for an entry: the directory joined with the name.
EntryPath(i) == dir \o <<"/">> \o EntryName(i)

\* fs::read_dir(dir) collected and sorted, for a directory of n entries.
Listing(n) == [k \in 1..n |-> EntryPath(k - 1)]

\* A file that is not below the listed directory (a --play argument).
OutsidePath == <<"/", "s">>

\* format!("file://{}", path)
Uri(path) == <<"f", "i", "l", "e", ":", "/", "/">> \o path

\* ------------------------------------------------------------------ state

VARIABLES
    pc,             \* "start" (constructed), "loop", "exit" (run returned),
                    \* "panic", "hang" (a call that never returns)
    args,           \* the Args fields read after construction
    cursor_state,   \* CursorState
    autoplay_state, \* AutoplayState
    files,          \* Vec<PathBuf>
    selected,       \* list_state.selected(): Option<usize>
    search,         \* the search buffer
    volume_once,    \* volume_once.is_completed()
    uri,            \* play.uri(): Option<String>
    volume,         \* play.volume()
    cmds            \* the calls of the most recent step

vars == <<pc, args, cursor_state, autoplay_state, files, selected, search,
          volume_once, uri, volume, cmds>>

len == Len(files)

\* files[i] of the source, i 0-based and in range.
FileAt(i) == files[i + 1]

CursorStates == {"MusicList", "Volume", "Control", "Search"}

\* Instance::new: the state after construction, for every command line the
\* model considers. --play and --random are read only by the startup step of
\* run, which draws them itself.
Init ==
    \E n \in 0..MaxFiles, no_listing \in BOOLEAN,
       no_remain \in BOOLEAN, vol \in {None, Some(OverrideVolume)},
       repeat_list \in BOOLEAN, repeat \in BOOLEAN,
       sequential \in BOOLEAN, shuffle \in BOOLEAN :
        /\ pc = "start"
        /\ args = [no_remain |-> no_remain, volume |-> vol,
                   no_listing |-> no_listing]
        /\ cursor_state = "MusicList"
        /\ files = IF no_listing THEN <<>> ELSE Listing(n)
        /\ selected = Some(0)
        /\ autoplay_state = [repeat_list |-> repeat_list, repeat |-> repeat,
                             sequential |-> sequential, shuffle |-> shuffle]
        /\ search = <<>>
        /\ volume_once = FALSE
        /\ uri = None
        /\ volume = DefaultVolume
        /\ cmds = <<>>

\* -------------------------------------------------------------- play_path

\* The calls that change the engine: the others only read it.
Commands == {"set_uri", "play", "pause", "seek", "set_volume"}

\* The calls play_path makes.
PlayPathCmds(path) ==
    <<<<"set_uri", Uri(path)>>, <<"play">>>>
    \o (IF IsSome(args.volume)
        THEN <<<<"sleep", SettleMillis>>>>
             \o (IF volume_once
                 THEN <<>>
                 ELSE <<<<"set_volume", Unwrap(args.volume)>>>>)
        ELSE <<>>)

\* play_path with set_volume outside the call_once of line 121: the override
\* is written on every activation.
play_pathReapply(pre, path) ==
    /\ uri' = Some(Uri(path))
    /\ volume' = IF IsSome(args.volume) THEN Unwrap(args.volume) ELSE volume
    /\ volume_once' = (volume_once \/ IsSome(args.volume))
    /\ cmds' = pre \o <<<<"set_uri", Uri(path)>>, <<"play">>>>
                 \o (IF IsSome(args.volume)
                     THEN <<<<"sleep", SettleMillis>>,
                            <<"set_volume", Unwrap(args.volume)>>>>
                     ELSE <<>>)

\* Instance::play_path, called by a step that has made the calls pre: its
\* effect on the engine and on the latch.
play_path(pre, path) ==
    /\ uri' = Some(Uri(path))
    /\ volume' = IF IsSome(args.volume) /\ ~volume_once
                 THEN Unwrap(args.volume)
                 ELSE volume
    /\ volume_once' = (volume_once \/ IsSome(args.volume))
    /\ cmds' = pre \o PlayPathCmds(path)

\* A panic: the process ends where it stands.
Panic ==
    /\ pc' = "panic"
    /\ cmds' = <<>>
    /\ UNCHANGED <<args, cursor_state, autoplay_state, files, selected,
                   search, volume_once, uri, volume>>

\* A step that makes the calls c, none of them a command, and changes
\* nothing.
Reads(c) ==
    /\ cmds' = c
    /\ UNCHANGED <<pc, args, cursor_state, autoplay_state, files, selected,
                   search, volume_once, uri, volume>>

\* A handler that returns having changed nothing and called nothing.
Nothing ==
    /\ cmds' = <<>>
    /\ UNCHANGED <<pc, args, cursor_state, autoplay_state, files, selected,
                   search, volume_once, uri, volume>>

\* ---------------------------------------------------------------- startup

\* Instance::run up to the loop: a fresh Play object, then --play or
\* --random.
Startup ==
    /\ pc = "start"
    /\ \E play \in {None, Some(EntryPath(0)), Some(OutsidePath)},
          random \in BOOLEAN :
        IF IsSome(play)
        THEN /\ play_path(<<>>, Unwrap(play))
             /\ pc' = "loop"
             /\ UNCHANGED <<args, cursor_state, autoplay_state, files,
                            selected, search>>
        ELSE IF random
        THEN IF len = 0
             THEN Panic
             ELSE \E track \in 0..(len - 1) :
                    /\ play_path(<<>>, FileAt(track))
                    /\ pc' = "loop"
                    /\ UNCHANGED <<args, cursor_state, autoplay_state, files,
                                   selected, search>>
        ELSE /\ pc' = "loop"
             /\ cmds' = <<>>
             /\ UNCHANGED <<args, cursor_state, autoplay_state, files,
                            selected, search, volume_once, uri, volume>>

\* ------------------------------------------------------------- completion

\* The find of lines 334-341: the indices whose derived URI is the loaded one.
Matching(u) == {k \in 0..(len - 1) : Uri(FileAt(k)) = u}

\* Iterator::find: the first of them, if any.
find_track(u) ==
    IF Matching(u) = {}
    THEN None
    ELSE Some(CHOOSE k \in Matching(u) : \A j \in Matching(u) : k <= j)

\* The calls of current_progress (lines 130-140) when both are Some.
ProgressCalls == <<<<"position">>, <<"duration">>>>

\* The calls of the find of lines 334-341 that stops at index k: one
\* play.uri() for each file it looks at.
FindCalls(k) == [j \in 1..(k + 1) |-> <<"uri">>]

\* SequentialFrom with the wrap test of line 345 written > instead of >=.
SequentialFromStrictWrap(k) ==
    LET next  == k + 1
        track == IF next > len /\ autoplay_state.repeat_list THEN 0 ELSE next
    IN  IF track < len
        THEN /\ play_path(ProgressCalls \o FindCalls(k), FileAt(track))
             /\ UNCHANGED <<pc, args, cursor_state, autoplay_state, files,
                            selected, search>>
        ELSE Reads(ProgressCalls \o FindCalls(k))

\* The Sequential rule of lines 333-351, the track found being at index k.
SequentialFrom(k) ==
    LET next  == k + 1
        track == IF next >= len /\ autoplay_state.repeat_list THEN 0 ELSE next
    IN  IF track < len
        THEN /\ play_path(ProgressCalls \o FindCalls(k), FileAt(track))
             /\ UNCHANGED <<pc, args, cursor_state, autoplay_state, files,
                            selected, search>>
        ELSE Reads(ProgressCalls \o FindCalls(k))

\* Lines 333-351: the unwrap of line 341 panics when find returns None.
SequentialRule ==
    IF IsSome(find_track(Unwrap(uri)))
    THEN SequentialFrom(Unwrap(find_track(Unwrap(uri))))
    ELSE Panic

\* ShuffleRule with the list cursor moved to the track it loads.
ShuffleRuleSelecting ==
    IF len = 0
    THEN Panic
    ELSE \E track \in 0..(len - 1) :
            /\ play_path(ProgressCalls, FileAt(track))
            /\ selected' = Some(track)
            /\ UNCHANGED <<pc, args, cursor_state, autoplay_state, files,
                           search>>

\* The Shuffle rule of lines 352-354.
ShuffleRule ==
    IF len = 0
    THEN Panic
    ELSE \E track \in 0..(len - 1) :
            /\ play_path(ProgressCalls, FileAt(track))
            /\ UNCHANGED <<pc, args, cursor_state, autoplay_state, files,
                           selected, search>>

\* The RepeatTrack rule of lines 331-332.
RepeatRule ==
    /\ cmds' = ProgressCalls \o <<<<"play">>>>
    /\ UNCHANGED <<pc, args, cursor_state, autoplay_state, files, selected,
                   search, volume_once, uri, volume>>

\* IdleRule with the test of line 355 negated.
IdleRuleInverted ==
    /\ pc' = IF args.no_remain THEN pc ELSE "exit"
    /\ cmds' = ProgressCalls
    /\ UNCHANGED <<args, cursor_state, autoplay_state, files, selected,
                   search, volume_once, uri, volume>>

\* Lines 355-357, and the implicit else.
IdleRule ==
    /\ pc' = IF args.no_remain THEN "exit" ELSE pc
    /\ cmds' = ProgressCalls
    /\ UNCHANGED <<args, cursor_state, autoplay_state, files, selected,
                   search, volume_once, uri, volume>>

\* CompletionRule with the tests of lines 331 and 333 in the other order.
CompletionRuleSequentialFirst ==
    IF autoplay_state.sequential THEN "sequential"
    ELSE IF autoplay_state.repeat THEN "repeat"
    ELSE IF autoplay_state.shuffle THEN "shuffle"
    ELSE "idle"

\* The rule the completion check of lines 330-358 applies.
CompletionRule ==
    IF autoplay_state.repeat THEN "repeat"
    ELSE IF autoplay_state.sequential THEN "sequential"
    ELSE IF autoplay_state.shuffle THEN "shuffle"
    ELSE "idle"

\* Lines 330-358 when current_progress() == 1.0. The engine reports a
\* position and a duration only for a loaded URI.
Completion ==
    /\ pc = "loop"
    /\ IsSome(uri)
    /\ CASE CompletionRule = "repeat" -> RepeatRule
         [] CompletionRule = "sequential" -> SequentialRule
         [] CompletionRule = "shuffle" -> ShuffleRule
         [] OTHER -> IdleRule

\* --------------------------------------------------------------- the keys

Key(code) == [code |-> code, c |-> ""]

Char(c) == [code |-> "Char", c |-> c]

\* IsGlobal without the Char arms of lines 366 and 372: 'q' and the space
\* fall through to the region.
IsGlobalCodes(key) == key.code \in {"Esc", "Tab"}

\* The keys of the first three arms of the match of lines 365-378.
IsGlobal(key) ==
    \/ key.code \in {"Esc", "Tab"}
    \/ key = Char("q")
    \/ key = Char(" ")

\* Dispatched without the match on cursor_state of line 379: every region's
\* arms see the key.
DispatchedAnywhere(region, key) ==
    /\ pc = "loop"
    /\ ~IsGlobal(key)

\* The key reaches the match on cursor_state of line 379 with this region
\* in focus.
Dispatched(region, key) ==
    /\ pc = "loop"
    /\ ~IsGlobal(key)
    /\ cursor_state = region

\* Lines 366-368.
Quit ==
    /\ pc = "loop"
    /\ \E key \in {Key("Esc"), Char("q")} : IsGlobal(key)
    /\ pc' = "exit"
    /\ cmds' = <<>>
    /\ UNCHANGED <<args, cursor_state, autoplay_state, files, selected,
                   search, volume_once, uri, volume>>

\* overflowing_next without the wrap of line 73: Search stays Search.
overflowing_nextSaturating(s) ==
    CASE s = "MusicList" -> "Volume"
      [] s = "Volume" -> "Control"
      [] s = "Control" -> "Search"
      [] s = "Search" -> "Search"

\* CursorState::overflowing_next.
overflowing_next(s) ==
    CASE s = "MusicList" -> "Volume"
      [] s = "Volume" -> "Control"
      [] s = "Control" -> "Search"
      [] s = "Search" -> "MusicList"

\* Lines 369-371.
Tab ==
    /\ pc = "loop"
    /\ IsGlobal(Key("Tab"))
    /\ cursor_state' = overflowing_next(cursor_state)
    /\ cmds' = <<>>
    /\ UNCHANGED <<pc, args, autoplay_state, files, selected, search,
                   volume_once, uri, volume>>

\* Instance::is_paused: the calls it makes and what it returns. With no URI
\* loaded the engine has no position; with one, each of the two readings is
\* the engine's to decide.
is_paused ==
    {[calls |-> <<<<"position">>>>, paused |-> TRUE]}
    \cup (IF uri = None
          THEN {}
          ELSE {[calls |-> <<<<"position">>, <<"position">>>>, paused |-> b] :
                   b \in BOOLEAN})

\* Lines 372-378.
Space ==
    /\ pc = "loop"
    /\ IsGlobal(Char(" "))
    /\ \E r \in is_paused :
        cmds' = r.calls \o (IF r.paused THEN <<<<"play">>>> ELSE <<<<"pause">>>>)
    /\ UNCHANGED <<pc, args, cursor_state, autoplay_state, files, selected,
                   search, volume_once, uri, volume>>

\* ---------------------------------------------------------- the music list

\* list_state.select(sel), and nothing else.
Select(sel) ==
    /\ selected' = sel
    /\ cmds' = <<>>
    /\ UNCHANGED <<pc, args, cursor_state, autoplay_state, files, search,
                   volume_once, uri, volume>>

\* list_state.select(Some(self.files.len() - 1)): with no file the
\* subtraction overflows, a panic in a build with overflow checks and
\* usize::MAX in one without.
SelectLast ==
    IF len > 0
    THEN Select(Some(len - 1))
    ELSE Panic \/ Select(Some(UsizeMax))

\* down stopping at the last index instead of wrapping.
downClamped(sel, n) ==
    IF IsSome(sel)
    THEN IF n > 1
         THEN Some(IF Unwrap(sel) + 1 < n THEN Unwrap(sel) + 1 ELSE Unwrap(sel))
         ELSE sel
    ELSE Some(0)

\* Lines 381-388, for a selection sel and n files.
down(sel, n) ==
    IF IsSome(sel)
    THEN IF n > 1 THEN Some((Unwrap(sel) + 1) % n) ELSE sel
    ELSE Some(0)

\* up stopping at index 0 instead of wrapping.
upClamped(i, n) ==
    IF n > 1
    THEN Some(IF i > 0 THEN (i - 1) % n ELSE 0)
    ELSE Some(i)

\* Lines 389-398, for Some(i) and n files.
up(i, n) ==
    IF n > 1
    THEN Some(IF i > 0 THEN (i - 1) % n ELSE n - 1)
    ELSE Some(i)

\* Lines 401-410, for Some(i) and n files.
left(i, n) ==
    IF n > PageStride
    THEN Some(IF i > PageStride - 1 THEN (i - PageStride) % n ELSE n - 1)
    ELSE Some(i)

\* Lines 413-420, for a selection sel and n files.
right(sel, n) ==
    IF IsSome(sel)
    THEN IF n > PageStride THEN Some((Unwrap(sel) + PageStride) % n) ELSE sel
    ELSE Some(0)

MusicListDown ==
    /\ Dispatched("MusicList", Key("Down"))
    /\ Select(down(selected, len))

MusicListUp ==
    /\ Dispatched("MusicList", Key("Up"))
    /\ IF IsSome(selected)
       THEN Select(up(Unwrap(selected), len))
       ELSE SelectLast

MusicListLeft ==
    /\ Dispatched("MusicList", Key("Left"))
    /\ IF IsSome(selected)
       THEN Select(left(Unwrap(selected), len))
       ELSE SelectLast

MusicListRight ==
    /\ Dispatched("MusicList", Key("Right"))
    /\ Select(right(selected, len))

\* Line 421.
MusicListHome ==
    /\ Dispatched("MusicList", Key("Home"))
    /\ Select(Some(0))

\* Line 422.
MusicListEnd ==
    /\ Dispatched("MusicList", Key("End"))
    /\ SelectLast

\* Lines 423-426: rand::random::<usize>() % self.files.len().
MusicListRandom ==
    /\ Dispatched("MusicList", Char("r"))
    /\ IF len = 0
       THEN Panic
       ELSE \E track \in 0..(len - 1) : Select(Some(track))

\* Lines 427-432.
MusicListRandomPlay ==
    /\ Dispatched("MusicList", Char("R"))
    /\ IF len = 0
       THEN Panic
       ELSE \E track \in 0..(len - 1) :
                /\ selected' = Some(track)
                /\ play_path(<<>>, FileAt(track))
                /\ UNCHANGED <<pc, args, cursor_state, autoplay_state, files,
                               search>>

\* Lines 433-442: self.files[track] panics out of range.
MusicListEnter ==
    /\ Dispatched("MusicList", Key("Enter"))
    /\ IF IsSome(selected)
       THEN IF Unwrap(selected) < len
            THEN /\ play_path(<<>>, FileAt(Unwrap(selected)))
                 /\ UNCHANGED <<pc, args, cursor_state, autoplay_state, files,
                                selected, search>>
            ELSE Panic
       ELSE Nothing

\* Line 443: the keys the music list has no arm for.
MusicListOther ==
    /\ \E key \in {Key("Backspace"), Key("Delete"), Char("s"), Char("l"),
                   Char("i")} : Dispatched("MusicList", key)
    /\ Nothing

\* ------------------------------------------------------------- the volume

Max(a, b) == IF a >= b THEN a ELSE b

Min(a, b) == IF a <= b THEN a ELSE b

\* self.play.set_volume(v) after the calls pre, and nothing else.
set_volume(pre, v) ==
    /\ volume' = v
    /\ cmds' = pre \o <<<<"set_volume", v>>>>
    /\ UNCHANGED <<pc, args, cursor_state, autoplay_state, files, selected,
                   search, volume_once, uri>>

\* Lines 446-448.
VolumeLeft ==
    /\ Dispatched("Volume", Key("Left"))
    /\ set_volume(<<<<"volume">>>>, Max(0, volume - 1))

\* VolumeRight without the 1.0_f64.min of line 450.
VolumeRightUnclamped ==
    /\ Dispatched("Volume", Key("Right"))
    /\ set_volume(<<<<"volume">>>>, volume + 1)

\* Lines 449-451.
VolumeRight ==
    /\ Dispatched("Volume", Key("Right"))
    /\ set_volume(<<<<"volume">>>>, Min(100, volume + 1))

\* Line 452.
VolumeHome ==
    /\ Dispatched("Volume", Key("Home"))
    /\ set_volume(<<>>, 0)

\* Line 453.
VolumeEnd ==
    /\ Dispatched("Volume", Key("End"))
    /\ set_volume(<<>>, 100)

\* Lines 454-456.
VolumeDown ==
    /\ Dispatched("Volume", Key("Down"))
    /\ set_volume(<<<<"volume">>>>, Max(0, volume - 5))

\* Lines 457-459.
VolumeUp ==
    /\ Dispatched("Volume", Key("Up"))
    /\ set_volume(<<<<"volume">>>>, Min(100, volume + 5))

\* Line 460: the keys the volume has no arm for.
VolumeOther ==
    /\ \E key \in {Key("Enter"), Key("Backspace"), Key("Delete")}
                  \cup {Char(c) : c \in Chars} : Dispatched("Volume", key)
    /\ Nothing

\* ----------------------------------------------------------- the controls

\* The durations the engine reports for a loaded URI, in whole seconds.
Durations == {0, 1, MaxSeconds}

\* What play.position() and play.duration() can return, in whole seconds:
\* nothing with no URI loaded; with one, a duration that is known or not yet
\* known and, with a known duration, a position that does not exceed it.
Clock ==
    IF uri = None
    THEN {[position |-> None, duration |-> None]}
    ELSE {[position |-> p, duration |-> None] :
            p \in {None} \cup {Some(t) : t \in 0..MaxSeconds}}
         \cup UNION {{[position |-> p, duration |-> Some(d)] :
                         p \in {None} \cup {Some(t) : t \in 0..d}} :
                      d \in Durations}

\* u64::saturating_sub.
saturating_sub(a, b) == IF a >= b THEN a - b ELSE 0

\* self.play.seek(ClockTime::from_seconds(t)) after the calls pre, and
\* nothing else.
seek(pre, t) ==
    /\ cmds' = pre \o <<<<"seek", t>>>>
    /\ UNCHANGED <<pc, args, cursor_state, autoplay_state, files, selected,
                   search, volume_once, uri, volume>>

\* Lines 463-469 and 481-487: a step back of secs seconds.
SeekBack(clock, secs) ==
    IF IsSome(clock.position)
    THEN seek(<<<<"position">>>>,
              Max(0, saturating_sub(Unwrap(clock.position), secs)))
    ELSE Reads(<<<<"position">>>>)

\* SeekForward without the min with the duration of lines 474-476.
SeekForwardUnclamped(clock, secs) ==
    IF IsSome(clock.position)
    THEN IF IsSome(clock.duration)
         THEN seek(<<<<"position">>, <<"duration">>>>,
                   Unwrap(clock.position) + secs)
         ELSE Reads(<<<<"position">>, <<"duration">>>>)
    ELSE Reads(<<<<"position">>>>)

\* Lines 470-480 and 488-498: a step forward of secs seconds. The sum stays
\* far below u64::MAX.
SeekForward(clock, secs) ==
    IF IsSome(clock.position)
    THEN IF IsSome(clock.duration)
         THEN seek(<<<<"position">>, <<"duration">>>>,
                   Min(Unwrap(clock.duration), Unwrap(clock.position) + secs))
         ELSE Reads(<<<<"position">>, <<"duration">>>>)
    ELSE Reads(<<<<"position">>>>)

ControlLeft ==
    /\ Dispatched("Control", Key("Left"))
    /\ \E clock \in Clock : SeekBack(clock, 1)

ControlRight ==
    /\ Dispatched("Control", Key("Right"))
    /\ \E clock \in Clock : SeekForward(clock, 1)

ControlDown ==
    /\ Dispatched("Control", Key("Down"))
    /\ \E clock \in Clock : SeekBack(clock, 15)

ControlUp ==
    /\ Dispatched("Control", Key("Up"))
    /\ \E clock \in Clock : SeekForward(clock, 15)

\* Line 500: self.play.seek(ClockTime::ZERO).
SeekHome == seek(<<>>, 0)

\* SeekEnd with a seek to the start where line 503 finds no duration.
SeekEndOrStart(clock) ==
    IF IsSome(clock.duration)
    THEN seek(<<<<"duration">>>>, Unwrap(clock.duration))
    ELSE seek(<<<<"duration">>>>, 0)

\* Lines 503-505: the jump to the end.
SeekEnd(clock) ==
    IF IsSome(clock.duration)
    THEN seek(<<<<"duration">>>>, Unwrap(clock.duration))
    ELSE Reads(<<<<"duration">>>>)

\* Lines 499-501.
ControlHome ==
    /\ Dispatched("Control", Key("Home"))
    /\ SeekHome

\* Lines 502-506.
ControlEnd ==
    /\ Dispatched("Control", Key("End"))
    /\ \E clock \in Clock : SeekEnd(clock)

\* Toggle with a plain assignment of true in place of the negation.
ToggleSet(field) ==
    /\ autoplay_state' = [autoplay_state EXCEPT ![field] = TRUE]
    /\ cmds' = <<>>
    /\ UNCHANGED <<pc, args, cursor_state, files, selected, search,
                   volume_once, uri, volume>>

\* The assignment of lines 508, 511, 514 and 517 to one field.
Toggle(field) ==
    /\ autoplay_state' =
           [autoplay_state EXCEPT ![field] = ~autoplay_state[field]]
    /\ cmds' = <<>>
    /\ UNCHANGED <<pc, args, cursor_state, files, selected, search,
                   volume_once, uri, volume>>

\* Lines 507-509.
ControlRepeat ==
    /\ Dispatched("Control", Char("r"))
    /\ Toggle("repeat")

\* Lines 510-512.
ControlShuffle ==
    /\ Dispatched("Control", Char("s"))
    /\ Toggle("shuffle")

\* Lines 513-515.
ControlSequential ==
    /\ Dispatched("Control", Char("l"))
    /\ Toggle("sequential")

\* Lines 516-518.
ControlRepeatList ==
    /\ Dispatched("Control", Char("i"))
    /\ Toggle("repeat_list")

\* Line 519: the keys the controls have no arm for.
ControlOther ==
    /\ \E key \in {Key("Enter"), Key("Backspace"), Key("Delete"), Char("R")} :
        Dispatched("Control", key)
    /\ Nothing

\* ------------------------------------------------------------- the search

\* The search buffer becomes buf, and nothing else changes.
SetSearch(buf) ==
    /\ search' = buf
    /\ cmds' = <<>>
    /\ UNCHANGED <<pc, args, cursor_state, autoplay_state, files, selected,
                   volume_once, uri, volume>>

\* Line 522. The model stops typing at MaxSearch characters.
SearchChar ==
    \E c \in Chars :
        /\ Dispatched("Search", Char(c))
        /\ Len(search) < MaxSearch
        /\ SetSearch(Append(search, c))

\* Lines 523-525: String::pop.
SearchBackspace ==
    /\ Dispatched("Search", Key("Backspace"))
    /\ SetSearch(IF search = <<>> THEN <<>>
                 ELSE SubSeq(search, 1, Len(search) - 1))

\* Line 526.
SearchDelete ==
    /\ Dispatched("Search", Key("Delete"))
    /\ SetSearch(<<>>)

\* The closure of lines 535-540 on the file at index k.
Matches(k) ==
    contains(to_lowercase(FileAt(k)), to_lowercase(search))

\* CycleAt with one element too few skipped: the scan starts at the
\* selected track itself.
CycleAtSelected(start, step) == (start - 1 + step) % len

\* The index the cycle of lines 529-534 yields at its step-th step (from 0)
\* after the skip of start elements.
CycleAt(start, step) == (start + step) % len

\* Lines 529-541: enumerate().cycle().skip(start).find(..). The cycle of
\* an empty list is empty, so find returns None; the cycle of a non-empty
\* list never ends, so find returns the first match or, with no match at
\* all, never returns.
SearchFrom(start) ==
    IF len = 0
    THEN Nothing
    ELSE IF \E k \in 0..(len - 1) : Matches(k)
    THEN LET first == CHOOSE step \in 0..(len - 1) :
                          /\ Matches(CycleAt(start, step))
                          /\ \A t \in 0..(step - 1) :
                                ~Matches(CycleAt(start, t))
         IN  Select(Some(CycleAt(start, first)))
    ELSE /\ pc' = "hang"
         /\ cmds' = <<>>
         /\ UNCHANGED <<args, cursor_state, autoplay_state, files, selected,
                        search, volume_once, uri, volume>>

\* Lines 527-545. selected + 1 overflows at usize::MAX: a panic in a build
\* with overflow checks, 0 in one without.
SearchEnter ==
    /\ Dispatched("Search", Key("Enter"))
    /\ IF IsSome(selected)
       THEN IF Unwrap(selected) = UsizeMax
            THEN Panic \/ SearchFrom(0)
            ELSE SearchFrom(Unwrap(selected) + 1)
       ELSE Nothing

\* Line 546: the keys the search has no arm for.
SearchOther ==
    /\ \E key \in {Key("Down"), Key("Up"), Key("Left"), Key("Right"),
                   Key("Home"), Key("End")} : Dispatched("Search", key)
    /\ Nothing

\* ------------------------------------------------------------------- specs

MusicListKeys ==
    \/ MusicListLeft
    \/ MusicListRight
    \/ MusicListDown
    \/ MusicListUp
    \/ MusicListHome
    \/ MusicListEnd
    \/ MusicListRandom
    \/ MusicListRandomPlay
    \/ MusicListEnter
    \/ MusicListOther

VolumeKeys ==
    \/ VolumeLeft
    \/ VolumeRight
    \/ VolumeHome
    \/ VolumeEnd
    \/ VolumeDown
    \/ VolumeUp
    \/ VolumeOther

ControlKeys ==
    \/ ControlLeft
    \/ ControlRight
    \/ ControlDown
    \/ ControlUp
    \/ ControlHome
    \/ ControlEnd
    \/ ControlRepeat
    \/ ControlShuffle
    \/ ControlSequential
    \/ ControlRepeatList
    \/ ControlOther

SearchKeys ==
    \/ SearchChar
    \/ SearchBackspace
    \/ SearchDelete
    \/ SearchEnter
    \/ SearchOther

\* One step of the program: the startup, or one of the things an iteration
\* of the loop of lines 184-551 does after drawing.
Next ==
    \/ Startup
    \/ Completion
    \/ Quit
    \/ Tab
    \/ Space
    \/ MusicListKeys
    \/ VolumeKeys
    \/ ControlKeys
    \/ SearchKeys

Spec == Init /\ [][Next]_vars

\* The program without the volume adjustments of lines 446-459 and the seeks
\* of lines 463-506, which touch the engine alone, and without the edits of
\* the search buffer: the buffer stays as constructed, empty.
ListNext ==
    \/ Startup
    \/ Completion
    \/ Quit
    \/ Tab
    \/ Space
    \/ MusicListKeys
    \/ VolumeOther
    \/ ControlRepeat
    \/ ControlShuffle
    \/ ControlSequential
    \/ ControlRepeatList
    \/ ControlOther
    \/ SearchEnter
    \/ SearchOther

SpecList == Init /\ [][ListNext]_vars

\* A command line with no autoplay flag, no --volume and no --no-remain, in
\* a directory of at most MaxSearchFiles entries.
InitSearch ==
    /\ Init
    /\ len <= MaxSearchFiles
    /\ args.volume = None
    /\ ~args.no_remain
    /\ autoplay_state = [repeat_list |-> FALSE, repeat |-> FALSE,
                         sequential |-> FALSE, shuffle |-> FALSE]

\* The program without the volume adjustments, the seeks and the autoplay
\* toggles.
SearchNext ==
    \/ Startup
    \/ Completion
    \/ Quit
    \/ Tab
    \/ Space
    \/ MusicListKeys
    \/ VolumeOther
    \/ ControlOther
    \/ SearchKeys

SpecSearch == InitSearch /\ [][SearchNext]_vars

\* A command line with --repeat-list, without --repeat and without
\* --no-remain, in a directory of at most MaxVolumeFiles entries.
InitVolume ==
    /\ Init
    /\ len <= MaxVolumeFiles
    /\ ~args.no_remain
    /\ ~autoplay_state.repeat
    /\ autoplay_state.repeat_list

\* The program without the seeks, the autoplay toggles and the edits of the
\* search buffer.
VolumeNext ==
    \/ Startup
    \/ Completion
    \/ Quit
    \/ Tab
    \/ Space
    \/ MusicListKeys
    \/ VolumeKeys
    \/ ControlOther
    \/ SearchEnter
    \/ SearchOther

SpecVolume == InitVolume /\ [][VolumeNext]_vars

\* A command line without --volume, --no-remain and autoplay flags, in a
\* directory of at most MaxToggleFiles entries.
InitToggle ==
    /\ Init
    /\ len <= MaxToggleFiles
    /\ args.volume = None
    /\ ~args.no_remain
    /\ ~autoplay_state.repeat_list
    /\ ~autoplay_state.repeat
    /\ ~autoplay_state.sequential
    /\ ~autoplay_state.shuffle

SpecToggle == InitToggle /\ [][ListNext]_vars

\* A command line without --volume and --no-remain, with at most --repeat of
\* the autoplay flags, in a directory of at most MaxControlFiles entries.
InitControl ==
    /\ Init
    /\ len <= MaxControlFiles
    /\ args.volume = None
    /\ ~args.no_remain
    /\ ~autoplay_state.repeat_list
    /\ ~autoplay_state.sequential
    /\ ~autoplay_state.shuffle

\* The program without the volume adjustments, the autoplay toggles and the
\* edits of the search buffer.
ControlNext ==
    \/ Startup
    \/ Completion
    \/ Quit
    \/ Tab
    \/ Space
    \/ MusicListKeys
    \/ VolumeOther
    \/ ControlLeft
    \/ ControlRight
    \/ ControlDown
    \/ ControlUp
    \/ ControlHome
    \/ ControlEnd
    \/ ControlOther
    \/ SearchEnter
    \/ SearchOther

SpecControl == InitControl /\ [][ControlNext]_vars

\* ------------------------------------------------------------- properties

\* The URIs the calls c load into the engine.
Loads(c) == {c[j][2] : j \in {k \in 1..Len(c) : c[k][1] = "set_uri"}}

\* The commands among the calls c, in order.
Issued(c) == SelectSeq(c, LAMBDA call : call[1] \in Commands)

\* The calls c load the file at path and play it.
LoadsAndPlays(c, path) ==
    /\ Len(Issued(c)) >= 2
    /\ Issued(c)[1][1] = "set_uri"
    /\ Issued(c)[1][2] = Uri(path)
    /\ Issued(c)[2][1] = "play"

\* The calls c are those of a completion check that found the ratio 1.0.
OfCompletion(c) ==
    /\ Len(c) >= 2
    /\ c[1][1] = "position"
    /\ c[2][1] = "duration"

\* The session's own state: everything but the engine and the program
\* counter.
session == <<cursor_state, autoplay_state, files, selected, search,
             volume_once>>

\* The index of the track whose derived URI the engine has loaded, when
\* there is one.
Loaded == CHOOSE k \in 0..(len - 1) : Uri(FileAt(k)) = Unwrap(uri)

HasLoaded == \E k \in 0..(len - 1) : Uri(FileAt(k)) = Unwrap(uri)

\* C1: a completion applies one rule, chosen by priority. With RepeatTrack
\* set, whatever the other toggles, the one command is play() and the loaded
\* URI stays; with RepeatTrack unset and Sequential set, whatever Shuffle,
\* nothing is loaded but the successor the Sequential rule names; only with
\* both unset does Shuffle load a track of the list, and with all three
\* unset no command is issued.
C1_CompletionPriority ==
    [][Completion =>
        /\ autoplay_state.repeat =>
              /\ Issued(cmds') = <<<<"play">>>>
              /\ uri' = uri
              /\ pc' = "loop"
        /\ (~autoplay_state.repeat /\ autoplay_state.sequential) =>
              /\ HasLoaded =>
                    Loads(cmds') \subseteq
                        {Uri(FileAt(IF Loaded + 1 < len THEN Loaded + 1 ELSE 0))}
              /\ ~HasLoaded => Loads(cmds') = {}
        /\ (~autoplay_state.repeat /\ ~autoplay_state.sequential
              /\ autoplay_state.shuffle /\ len > 0) =>
              \E k \in 0..(len - 1) : LoadsAndPlays(cmds', FileAt(k))
        /\ (~autoplay_state.repeat /\ ~autoplay_state.sequential
              /\ ~autoplay_state.shuffle) =>
              Issued(cmds') = <<>>
    ]_vars

\* C1 witness: RepeatTrack, Sequential and Shuffle all set, and the last
\* step was a completion that replayed the loaded track.
C1_Witness ==
    /\ pc = "loop"
    /\ autoplay_state.repeat
    /\ autoplay_state.sequential
    /\ autoplay_state.shuffle
    /\ len >= 2
    /\ OfCompletion(cmds)
    /\ Issued(cmds) = <<<<"play">>>>

\* C2: a completion under the Sequential rule (RepeatTrack unset) with the
\* loaded URI derived from track k of n loads and plays track k+1 when
\* k+1 < n, loads and plays track 0 when k+1 >= n and RepeatList is set,
\* and loads nothing when k+1 >= n and RepeatList is unset.
C2_SequentialAdvance ==
    [][(/\ Completion
        /\ ~autoplay_state.repeat
        /\ autoplay_state.sequential
        /\ HasLoaded) =>
        /\ Loaded + 1 < len =>
              /\ LoadsAndPlays(cmds', FileAt(Loaded + 1))
              /\ uri' = Some(Uri(FileAt(Loaded + 1)))
        /\ (Loaded + 1 >= len /\ autoplay_state.repeat_list) =>
              /\ LoadsAndPlays(cmds', FileAt(0))
              /\ uri' = Some(Uri(FileAt(0)))
        /\ (Loaded + 1 >= len /\ ~autoplay_state.repeat_list) =>
              /\ Issued(cmds') = <<>>
              /\ uri' = uri
    ]_vars

\* C2 witness: Sequential and RepeatList set, three tracks, and the last
\* step was a completion that looked at all three tracks to find the loaded
\* one and then loaded track 0.
C2_Witness ==
    /\ pc = "loop"
    /\ ~autoplay_state.repeat
    /\ autoplay_state.sequential
    /\ autoplay_state.repeat_list
    /\ len = 3
    /\ OfCompletion(cmds)
    /\ Len(SelectSeq(cmds, LAMBDA call : call[1] = "uri")) = 3
    /\ LoadsAndPlays(cmds, FileAt(0))
    /\ uri = Some(Uri(FileAt(0)))

\* C3: a completion under the Sequential rule with no track whose derived
\* URI is the loaded one is skipped: nothing is loaded, the session state is
\* unchanged and the loop goes on.
C3_DesyncSkipped ==
    [][(/\ Completion
        /\ CompletionRule = "sequential"
        /\ ~HasLoaded) =>
        /\ pc' = "loop"
        /\ Loads(cmds') = {}
        /\ UNCHANGED session
    ]_vars

\* The keys C4 names.
C4_Keys ==
    \/ MusicListDown
    \/ MusicListUp
    \/ MusicListLeft
    \/ MusicListRight
    \/ MusicListHome
    \/ MusicListEnd
    \/ MusicListRandom
    \/ MusicListRandomPlay
    \/ MusicListEnter
    \/ SearchEnter

\* C4: with an empty track list every key of the music list and the search
\* confirm leave the session state unchanged, load nothing and leave the
\* loop running.
C4_EmptyListNoop ==
    [][(len = 0 /\ C4_Keys) =>
        /\ pc' = "loop"
        /\ Loads(cmds') = {}
        /\ UNCHANGED session
    ]_vars

\* C5: the selection is None exactly when the track list is empty, and is
\* otherwise an index below the length of the list.
C5_CursorValid ==
    /\ (selected = None) <=> (len = 0)
    /\ IsSome(selected) => Unwrap(selected) \in 0..(len - 1)

\* The path at index k contains the search buffer, case-insensitively.
ContainsBuffer(k) ==
    \E off \in 0..(Len(FileAt(k)) - Len(search)) :
        \A j \in 1..Len(search) :
            LowerChar(FileAt(k)[off + j]) = LowerChar(search[j])

\* C6: confirming a search that no track of a non-empty list matches
\* completes: the selection is unchanged and the loop goes on.
C6_NoMatchCompletes ==
    [][(/\ SearchEnter
        /\ len > 0
        /\ IsSome(selected)
        /\ \A k \in 0..(len - 1) : ~ContainsBuffer(k)) =>
        /\ pc' = "loop"
        /\ selected' = selected
    ]_vars

\* The first index after s in the cyclic order (s+1) mod n, ..., s whose
\* path contains the search buffer, when there is one.
FirstAfter(s) ==
    LET d == CHOOSE d \in 1..len :
                /\ ContainsBuffer((s + d) % len)
                /\ \A e \in 1..(d - 1) : ~ContainsBuffer((s + e) % len)
    IN  (s + d) % len

\* C7: confirming a search with selection s on n >= 1 tracks, one of which
\* contains the buffer, selects the first index in the cyclic order
\* (s+1) mod n, ..., s that contains it: (s+1) mod n with an empty buffer,
\* and s itself when the selected track is the only match.
C7_SearchConfirm ==
    [][(/\ SearchEnter
        /\ len >= 1
        /\ IsSome(selected)
        /\ \E k \in 0..(len - 1) : ContainsBuffer(k)) =>
        LET s == Unwrap(selected)
        IN  /\ pc' = "loop"
            /\ selected' = Some(FirstAfter(s))
            /\ search = <<>> => selected' = Some((s + 1) % len)
            /\ (\A k \in 0..(len - 1) : ContainsBuffer(k) <=> k = s) =>
                  selected' = selected
    ]_vars

\* C7 witness: three tracks, the buffer "rs" typed in the search region and
\* the selection on the one track whose path ("./Rs") contains it.
C7_Witness ==
    /\ pc = "loop"
    /\ cursor_state = "Search"
    /\ len = 3
    /\ search = <<"r", "s">>
    /\ ContainsBuffer(2)
    /\ ~ContainsBuffer(0)
    /\ ~ContainsBuffer(1)
    /\ selected = Some(2)
    /\ cmds = <<>>

RECURSIVE DownTimes(_, _, _)
\* down applied k times to sel, for n files.
DownTimes(k, sel, n) ==
    IF k = 0 THEN sel ELSE DownTimes(k - 1, down(sel, n), n)

\* C8: for n >= 1 files, Down in the music list moves the selection from i
\* to (i+1) mod n, and n of them lead back to i.
C8_NextCycle ==
    [][(pc = "loop" /\ len >= 1 /\ IsSome(selected)) =>
        /\ DownTimes(len, selected, len) = selected
        /\ MusicListDown => selected' = Some((Unwrap(selected) + 1) % len)
    ]_vars

\* C8 witness: three tracks and the selection on the last of them in the
\* music list, where the next Down wraps to 0.
C8_Witness ==
    /\ pc = "loop"
    /\ cursor_state = "MusicList"
    /\ len = 3
    /\ selected = Some(2)
    /\ down(selected, len) = Some(0)
    /\ cmds = <<>>

\* C9: for n > 1 files and a valid selection i, Up in the music list moves
\* the selection to (i-1+n) mod n, and a Down after it leads back to i.
C9_PrevNext ==
    [][(pc = "loop" /\ len > 1 /\ IsSome(selected)) =>
        LET i == Unwrap(selected)
        IN  /\ up(i, len) = Some((i - 1 + len) % len)
            /\ down(up(i, len), len) = selected
            /\ MusicListUp => selected' = Some((i - 1 + len) % len)
    ]_vars

\* C9 witness: four tracks and the selection on the first of them in the
\* music list, where Up wraps to 3 and the Down after it wraps back.
C9_Witness ==
    /\ pc = "loop"
    /\ cursor_state = "MusicList"
    /\ len = 4
    /\ selected = Some(0)
    /\ up(0, len) = Some(3)
    /\ cmds = <<>>

\* C10: for n > 5 files Right moves the selection from i to (i+5) mod n and
\* Left to (i-5+n) mod n; for n <= 5 both leave it unchanged.
C10_PageStep ==
    [][(pc = "loop" /\ len >= 1 /\ IsSome(selected)) =>
        LET i == Unwrap(selected)
        IN  /\ (MusicListRight /\ len > PageStride) =>
                  selected' = Some((i + PageStride) % len)
            /\ (MusicListLeft /\ len > PageStride) =>
                  selected' = Some((i - PageStride + len) % len)
            /\ ((MusicListLeft \/ MusicListRight) /\ len <= PageStride) =>
                  selected' = selected
    ]_vars

SeekTargets(c) == {c[j][2] : j \in {k \in 1..Len(c) : c[k][1] = "seek"}}

\* The step is the handler of a seek key of the control region, the engine
\* answering its reads with clock.
SeekStep(clock) ==
    /\ pc = "loop"
    /\ cursor_state = "Control"
    /\ \/ SeekBack(clock, 1)
       \/ SeekForward(clock, 1)
       \/ SeekBack(clock, 15)
       \/ SeekForward(clock, 15)
       \/ SeekHome
       \/ SeekEnd(clock)

\* C12: with a known duration d, every seek a key of the control region
\* issues targets a position in 0..d; Home targets 0 and End targets d.
C12_SeekRange ==
    [][(pc = "loop" /\ cursor_state = "Control") =>
        \A t \in SeekTargets(cmds') :
            /\ t >= 0
            /\ SeekHome => t = 0
            /\ \A clock \in Clock :
                IsSome(clock.duration) =>
                    /\ t <= Unwrap(clock.duration) \/ ~SeekStep(clock)
                    /\ t = Unwrap(clock.duration) \/ ~SeekEnd(clock)
    ]_vars

\* C12 witness: the last step was a forward seek in the control region that
\* read the position and the duration and targeted the longest duration.
C12_Witness ==
    /\ pc = "loop"
    /\ cursor_state = "Control"
    /\ Len(cmds) = 3
    /\ cmds[1][1] = "position"
    /\ cmds[2][1] = "duration"
    /\ cmds[3][1] = "seek"
    /\ cmds[3][2] = MaxSeconds

\* The regions in the order of the enum of lines 54-60.
FocusCycle == <<"MusicList", "Volume", "Control", "Search">>

\* The cyclic successor of region s in FocusCycle.
CycleSuccessor(s) ==
    LET j == CHOOSE k \in 1..4 : FocusCycle[k] = s
    IN FocusCycle[(j % 4) + 1]

\* C13: the focus is the track list before the loop starts; a step changes
\* it only if it is the Tab key, Tab moves it to its cyclic successor, and
\* four Tabs lead back to the region they started from.
C13_FocusCycle ==
    [][/\ pc = "start" => cursor_state = "MusicList"
       /\ cursor_state' # cursor_state => Tab
       /\ Tab => cursor_state' = CycleSuccessor(cursor_state)
       /\ overflowing_next(overflowing_next(overflowing_next(
              overflowing_next(cursor_state)))) = cursor_state
    ]_vars

\* C13 witness: the last step was a Tab that moved the focus to the search
\* region, the third successor of the initial one.
C13_Witness ==
    /\ pc = "loop"
    /\ cursor_state = "Search"
    /\ cmds = <<>>

\* The autoplay record a with the boolean field negated.
Flipped(a, field) == [a EXCEPT ![field] = ~a[field]]

\* C14: in the control region 'r', 's', 'l' and 'i' each negate their own
\* boolean and leave the other three; pressing the same key again restores
\* the record.
C14_Toggles ==
    [][/\ ControlRepeat =>
              /\ autoplay_state' = Flipped(autoplay_state, "repeat")
              /\ Flipped(autoplay_state', "repeat") = autoplay_state
       /\ ControlShuffle =>
              /\ autoplay_state' = Flipped(autoplay_state, "shuffle")
              /\ Flipped(autoplay_state', "shuffle") = autoplay_state
       /\ ControlSequential =>
              /\ autoplay_state' = Flipped(autoplay_state, "sequential")
              /\ Flipped(autoplay_state', "sequential") = autoplay_state
       /\ ControlRepeatList =>
              /\ autoplay_state' = Flipped(autoplay_state, "repeat_list")
              /\ Flipped(autoplay_state', "repeat_list") = autoplay_state
    ]_vars

\* C14 witness: in a session started with every autoplay flag unset, only
\* RepeatTrack is set after a key of the control region.
C14_Witness ==
    /\ pc = "loop"
    /\ cursor_state = "Control"
    /\ cmds = <<>>
    /\ autoplay_state = [repeat_list |-> FALSE, repeat |-> TRUE,
                         sequential |-> FALSE, shuffle |-> FALSE]

\* The volumes the calls c write to the engine.
VolumeWrites(c) ==
    {c[j][2] : j \in {k \in 1..Len(c) : c[k][1] = "set_volume"}}

\* C15: the latch is set only in sessions with a volume override and is
\* never reset; a step that loads a track writes a volume only while the
\* latch is unset, writes the override then and sets the latch; with the
\* latch set it writes no volume and the engine volume stays what it was.
C15_OverrideOnce ==
    [][/\ volume_once => (volume_once' /\ IsSome(args.volume))
       /\ Loads(cmds') # {} =>
              IF IsSome(args.volume) /\ ~volume_once
              THEN /\ VolumeWrites(cmds') = {Unwrap(args.volume)}
                   /\ volume' = Unwrap(args.volume)
                   /\ volume_once'
              ELSE /\ VolumeWrites(cmds') = {}
                   /\ volume' = volume
    ]_vars

\* C15 witness: the override was applied, the user has since set another
\* volume, and the last step loaded a track and left that volume.
C15_Witness ==
    /\ pc = "loop"
    /\ IsSome(args.volume)
    /\ volume_once
    /\ volume # Unwrap(args.volume)
    /\ Loads(cmds) # {}

\* C16: a completion with RepeatTrack, Sequential and Shuffle unset ends the
\* loop when --no-remain is given; without it the step issues no command,
\* changes neither the session nor the engine, and the loop keeps running.
C16_IdleCompletion ==
    [][(/\ Completion
        /\ ~autoplay_state.repeat
        /\ ~autoplay_state.sequential
        /\ ~autoplay_state.shuffle) =>
            IF args.no_remain
            THEN pc' = "exit"
            ELSE /\ pc' = "loop"
                 /\ Issued(cmds') = <<>>
                 /\ UNCHANGED <<session, uri, volume>>
    ]_vars

\* C16 witness: with --no-remain, the loop has ended in a completion check.
C16_Witness ==
    /\ pc = "exit"
    /\ args.no_remain
    /\ OfCompletion(cmds)
    /\ ~autoplay_state.repeat
    /\ ~autoplay_state.sequential
    /\ ~autoplay_state.shuffle

\* C17: with --no-remain, Sequential set and RepeatTrack and RepeatList
\* unset, the completion of the last track of the list ends the loop, or at
\* least changes the state the next completion check starts from, so that
\* the loop can end later without a quit key.
C17_NoRemainExits ==
    [][(/\ Completion
        /\ args.no_remain
        /\ autoplay_state.sequential
        /\ ~autoplay_state.repeat
        /\ ~autoplay_state.repeat_list
        /\ HasLoaded
        /\ Loaded + 1 >= len) =>
            \/ pc' = "exit"
            \/ <<session, uri>>' # <<session, uri>>
    ]_vars

\* The calls c block the loop in thread::sleep.
Sleeps(c) == \E k \in 1..Len(c) : c[k][1] = "sleep"

\* C18: a step blocks in the settle delay only in a session with a volume
\* override and only while the latch is unset, hence at most once.
C18_DelayOnce ==
    [][Sleeps(cmds') => (IsSome(args.volume) /\ ~volume_once)]_vars

\* C19: on an empty track list startup enters the loop, whatever --random
\* says, and a completion under the Shuffle rule loads nothing and leaves
\* the loop running.
C19_EmptyListSafe ==
    [][/\ (len = 0 /\ Startup) => pc' = "loop"
       /\ (len = 0 /\ Completion /\ CompletionRule = "shuffle") =>
              /\ pc' = "loop"
              /\ Loads(cmds') = {}
    ]_vars

\* The original statement of C20: when the engine reports no duration, no
\* seek key of the control region sends a seek.
C20_NoDurationNoSeek ==
    [][(pc = "loop" /\ cursor_state = "Control" /\ SeekTargets(cmds') # {}) =>
        \A clock \in Clock : clock.duration = None => ~SeekStep(clock)
    ]_vars

\* C20, amended: when the engine reports no duration, Right, Up and End send
\* no seek; Left and Down still seek to max(0, position - step) when the
\* engine reports a position, and Home always seeks to 0.
C20_NoDurationSeeks ==
    [][(pc = "loop" /\ cursor_state = "Control") =>
        \A clock \in Clock :
            clock.duration = None =>
                /\ SeekForward(clock, 1) => SeekTargets(cmds') = {}
                /\ SeekForward(clock, 15) => SeekTargets(cmds') = {}
                /\ SeekEnd(clock) => SeekTargets(cmds') = {}
                /\ SeekBack(clock, 1) =>
                       SeekTargets(cmds') =
                           {Max(0, Unwrap(p) - 1) : p \in {clock.position} \ {None}}
                /\ SeekBack(clock, 15) =>
                       SeekTargets(cmds') =
                           {Max(0, Unwrap(p) - 15) : p \in {clock.position} \ {None}}
                /\ SeekHome => SeekTargets(cmds') = {0}
    ]_vars

\* C20 witness: nothing is loaded, so the engine has no duration, and the
\* last step was Home in the control region, which sought to 0.
C20_Witness ==
    /\ pc = "loop"
    /\ cursor_state = "Control"
    /\ uri = None
    /\ Len(cmds) = 1
    /\ cmds[1][1] = "seek"
    /\ cmds[1][2] = 0

\* The autoplay record of a command line without autoplay flags.
NoFlags == [repeat_list |-> FALSE, repeat |-> FALSE,
            sequential |-> FALSE, shuffle |-> FALSE]

C22_CompletionFrame ==
    [][Completion =>
        UNCHANGED <<selected, search, cursor_state, autoplay_state>>
    ]_vars

\* C22 witness: the last step was a completion that loaded a track of the
\* list other than the one under the cursor.
C22_Witness ==
    /\ pc = "loop"
    /\ OfCompletion(cmds)
    /\ Loads(cmds) # {}
    /\ IsSome(selected)
    /\ Unwrap(selected) < len
    /\ HasLoaded
    /\ Loaded # Unwrap(selected)

\* The characters of the search buffer.
Typed(buf) == {buf[j] : j \in 1..Len(buf)}

\* C23: while the loop runs, whatever the focus, the quit keys, Tab and
\* Space can be handled: quit ends the loop, Tab moves the focus to its
\* successor, Space issues play or pause, and none of them touches the
\* search buffer. The buffer changes only with the search region in focus
\* and never holds a 'q' or a space.
C23_GlobalKeys ==
    [][/\ pc = "loop" => (ENABLED Quit /\ ENABLED Tab /\ ENABLED Space)
       /\ Quit => (pc' = "exit" /\ search' = search)
       /\ Tab => /\ cursor_state' = CycleSuccessor(cursor_state)
                 /\ search' = search
       /\ Space => /\ Len(Issued(cmds')) = 1
                   /\ Issued(cmds')[1][1] \in {"play", "pause"}
                   /\ search' = search
       /\ search' # search => (pc = "loop" /\ cursor_state = "Search")
       /\ Typed(search) \cap {"q", " "} = {}
       /\ Typed(search') \cap {"q", " "} = {}
    ]_vars

\* C23 witness: the loop was ended by a quit key with the search region in
\* focus and a full buffer.
C23_Witness ==
    /\ pc = "exit"
    /\ cursor_state = "Search"
    /\ Len(search) = MaxSearch
    /\ cmds = <<>>

====
